---- MODULE Spec2Model ----
(***************************************************************************)
(* CaptureManager of src/dvr_app.py: the capture supervisor of the RPi DVR. *)
(* The session fields are shared between the worker threads that run        *)
(* _capture_loop, the callers of start_capture / stop_capture /             *)
(* restart_capture / change_resolution and the threads that run             *)
(* save_to_disk.  Every `with self.lock:` block of the source is one atomic *)
(* action; every access the source makes outside the lock is a step of its  *)
(* own, so that the other threads interleave with it.                       *)
(***************************************************************************)
EXTENDS Integers, Sequences, FiniteSets, TLC

\* ---------------------------------------------------------------- bounds
\* Thread slots for _capture_loop workers (a slot is reused once its thread ended).
MaxWorkers == 2
\* Slots for ffmpeg capture children (reused once exited and unreferenced).
MaxChildren == 2
\* Threads that may be inside save_to_disk at once.
MaxSavers == 1
\* Threads that may be inside restart_capture / change_resolution at once.
MaxRestarters == 1
\* restart_capture / change_resolution calls made in one run.
MaxRestartCalls == 1
\* The wall clock runs from 0 to MaxClock ticks.
MaxClock == 2
\* Successful saves recorded in save_log.
MaxSaves == 2
\* Clock ticks per wall-clock second (strftime drops the sub-second part).
TicksPerSecond == 2
\* BUFFER_DURATION_SECONDS and HLS_SEGMENT_DURATION, scaled down from 900 and 4.
BUFFER_DURATION_SECONDS == 2
HLS_SEGMENT_DURATION == 2
\* The highest segment number a capture child writes in one run.
MaxSegmentNumber == 3
\* Lines the validation process writes on its stderr.
MaxStderrLines == 2
\* Device nodes /dev/video<n>, and sound cards, the machine may have.
MaxDevices == 3
\* camera_recorder processes that exist at once, and Flask threads of the web
\* server.
MaxRecorders == 3
MaxHandlers == 2

Workers == 1..MaxWorkers
Children == 1..MaxChildren
Savers == 1..MaxSavers
Restarters == 1..MaxRestarters
Recorders == 1..MaxRecorders
Handlers == 1..MaxHandlers

\* Python's None: for a device, an encoder, a resolution or a message; for a
\* process handle or a thread; for a time.
None == "None"
NoProcess == 0
NoTime == -1

\* ------------------------------------------------------------- constants
\* The encoder candidates of _capture_loop, in declared order.
encoder_fallback_order == <<"libx264">>
\* What the device probes can return besides None.
VideoDevices == {"/dev/video0"}
AudioDevices == {"plughw:1,0"}
\* The resolutions api_change_resolution lets through.
Resolutions == {"640x480", "320x240", "160x120"}
\* HLS_LIST_SIZE = BUFFER_DURATION_SECONDS // HLS_SEGMENT_DURATION
HLS_LIST_SIZE == BUFFER_DURATION_SECONDS \div HLS_SEGMENT_DURATION

\* The texts monitor_stderr looks for in a line of the validation process.
FatalSignatures ==
    {"non-existing PPS", "decode_slice_header error", "no frame!", "Error initializing"}
\* A line of stderr is modelled by the one text it contains: a fatal signature,
\* a progress report, or a signature in another letter case.
StderrLines == FatalSignatures \cup {"frame=   90 fps= 30", "error initializing"}
\* What the validation process may write on stderr, and exit with (-15: killed
\* by a signal).
StderrOutputs == UNION {[1..n -> StderrLines] : n \in 0..MaxStderrLines}
ReturnCodes == {0, 1, -15}

\* The status messages.  An f-string is the tuple of its literal part and its
\* argument, so that str.startswith can be computed on it.
StStopped == <<"Stopped">>
StStarting == <<"Starting...">>
StDetecting == <<"Detecting devices...">>
StNotFound == <<"Devices not found. Retrying...">>
StValidating(encoder) == <<"Validating ", encoder, "...">>
StAllFailed == <<"All encoders failed validation. Retrying...">>
StStartingCapture(encoder) == <<"Starting capture with ", encoder, "...">>
StRecording(encoder) == <<"Recording with ", encoder>>
StCrashed == <<"ffmpeg crashed. Restarting...">>
StSaving == <<"Saving video...">>

\* status.startswith("Recording"): of the messages above only the
\* "Recording with <encoder>" ones begin with that word.
StartsWithRecording(s) == s[1] = "Recording with "

\* datetime.now().strftime("%Y-%m-%d_%H-%M-%S"): the clock cut to whole seconds.
Timestamp(t) == t \div TicksPerSecond

VARIABLES
    \* the session fields of CaptureManager.__init__
    ffmpeg_process, status, capture_thread, is_running, start_time, resolution,
    last_video_device, last_audio_device, active_encoder,
    \* worker[w]: the position and the locals of thread w running _capture_loop
    worker,
    \* child[c]: the ffmpeg capture process c and what it was launched with
    child,
    \* restarter[r]: the position of a thread inside restart_capture;
    \* restart_calls: the restart_capture / change_resolution calls made so far
    \* requested_resolution: the argument of the last change_resolution call
    restarter, restart_calls, requested_resolution,
    \* saver[s]: the position and locals of a thread inside save_to_disk;
    \* save_returned: what the save_to_disk call that returned last returned
    saver, save_returned,
    \* the files of VIDEO_SAVE_DIR, and the file name of every successful save
    saved_files, save_log,
    \* the wall clock, in ticks
    now,
    \* what the last start_capture call printed
    last_start,
    \* lock: the thread that holds self.lock from one step to the next (None: free)
    \* getter: the position of a thread inside get_stats
    \* stats: the dictionary the get_stats call that returned last returned
    lock, getter, stats,
    \* the segment files (by number) in RAM_DISK_PATH
    segment_files,
    \* one run of the validation process of _validate_ffmpeg_config: the lines
    \* on its stderr, its return code, and <<the value the method returned>>
    stderr_lines, returncode, verdict,
    \* validator: the threads of that run (the caller in process.wait() and
    \* join(), the monitor_stderr thread) and whether the process has exited
    validator,
    \* detector: one call of find_active_video_device / find_active_audio_device
    detector,
    \* settled: the devices, the encoder and the child have stopped failing
    settled,
    \* api_response: what the /api/change_resolution request made last returned
    api_response,
    \* autoRecorder: gui: the Tk main thread inside AppGUI.toggle_pause;
    \* recorder[p]: the camera_recorder process p the web server launched;
    \* request[h]: the Flask thread h of the web server inside a route
    gui, recorder, request

session == <<ffmpeg_process, status, capture_thread, is_running, start_time,
             resolution, last_video_device, last_audio_device, active_encoder>>
disk == <<saved_files, save_log>>
callers == <<restarter, restart_calls, requested_resolution>>
savers == <<saver, save_returned>>
observers == <<lock, getter, stats>>
validation == <<stderr_lines, returncode, verdict, validator>>
autorecorder == <<gui, recorder, request>>
aside == <<detector, settled, api_response, autorecorder>>
others == <<observers, segment_files, validation, aside>>
vars == <<session, worker, child, callers, savers, disk, now, last_start, others>>

\* A thread slot nobody runs in.
IdleWorker ==
    [pc |-> "idle", current_resolution |-> None, video_device |-> None,
     audio_device |-> None, encoder_index |-> 0, working_encoder |-> None,
     popen_result |-> NoProcess, wait_process |-> NoProcess,
     \* history: the verdict of each candidate validated in this iteration
     verdicts |-> <<>>,
     \* history: the resolution and the devices the detection of this iteration
     \* succeeded with, and the encoder, resolution and devices its validation
     \* passed with
     detected |-> <<>>, validated |-> <<>>,
     \* history: the steps of the capture stage done in this iteration
     stages |-> <<>>,
     \* history: a stop_capture cleared the running flag since this thread was
     \* started or last found the flag set in its loop test
     flag_cleared |-> FALSE,
     \* history: a stop_capture ran since this worker's detection began
     stale |-> FALSE,
     \* history: the call (stop_capture, restart_capture, change_resolution) whose
     \* stop signalled the child this worker is blocked on
     stopped_in_wait |-> None]

\* A slot no process runs in (none was launched, or it has exited).
NoChild ==
    [state |-> "none", resolution |-> None, encoder |-> None,
     video_device |-> None, audio_device |-> None,
     \* the number of the next segment file, and the segments its playlist lists
     next_segment |-> 0, playlist |-> <<>>,
     \* history: launched, with the running flag set, from a detection that
     \* began before the last stop_capture
     stale_launch |-> FALSE]

\* The dictionaries save_to_disk returns.
NotRunningError == [status |-> "error", message |-> <<"Capture is not running.">>]
BufferInvalidError == [status |-> "error", message |-> <<"Buffer is invalid. Save aborted.">>]
SaveFailedError == [status |-> "error", message |-> <<"Failed to save video.">>]
SaveSuccess(timestamp) == [status |-> "success", message |-> <<"Saved to ", timestamp>>]
\* No dictionary: the call has not returned.
NoResult == [status |-> None, message |-> <<>>]

IdleSaver ==
    [pc |-> "idle", timestamp |-> NoTime, result |-> NoResult,
     \* history: the subprocesses this call ran, and whether each succeeded
     ran |-> <<>>,
     \* history: the status at the moment save_to_disk was called
     status_before |-> <<>>]

\* No dictionary: no get_stats call has returned.
NoStats ==
    [status |-> <<>>, resolution |-> None, encoder |-> None, uptime |-> 0,
     buffered_segments |-> 0, max_segments |-> HLS_LIST_SIZE]


\* No validation process: nothing read from its stderr, the has_critical_error
\* event clear.
IdleValidator ==
    [pc |-> "idle", read |-> 0, has_critical_error |-> FALSE,
     monitor_done |-> FALSE, exited |-> FALSE]

\* No detector call: no candidate enumerated, none probed, nothing returned.
IdleDetector ==
    [pc |-> "idle", kind |-> None, enumerated |-> TRUE, candidates |-> <<>>,
     probe_ok |-> <<>>, probed |-> <<>>, result |-> <<>>]

\* No response: no /api/change_resolution request was made.
NoResponse == [status |-> None, code |-> 0]

\* The Tk main thread in its event loop; `handler` is the code that runs on it
\* while it is busy (__main__, toggle_pause or stop_program).
IdleGui == [pc |-> "idle", handler |-> None]

\* A Flask thread of the web server that serves no request.
IdleRequest == [pc |-> "idle", route |-> None, response |-> 0]

\* autoRecorder before anything runs: no toggle_pause, no recorder process, no
\* request.
InitAutoRecorder ==
    /\ gui = IdleGui
    /\ recorder = [p \in Recorders |-> "none"]
    /\ request = [h \in Handlers |-> IdleRequest]

\* The lock free, nobody in get_stats, the buffer directory empty, and no
\* validation process under observation.
InitOthers ==
    /\ lock = None
    /\ getter = "idle"
    /\ stats = NoStats
    /\ segment_files = {}
    /\ stderr_lines = <<>>
    /\ returncode = 0
    /\ verdict = <<>>
    /\ validator = IdleValidator
    /\ detector = IdleDetector
    /\ settled = FALSE
    /\ api_response = NoResponse
    /\ InitAutoRecorder

\* CaptureManager(): the fields of __init__, and nobody calling yet.
InitSession ==
    /\ ffmpeg_process = NoProcess
    /\ status = StStopped
    /\ capture_thread = NoProcess
    /\ is_running = FALSE
    /\ start_time = NoTime
    /\ resolution = "640x480"
    /\ last_video_device = None
    /\ last_audio_device = None
    /\ active_encoder = "N/A"
    /\ worker = [w \in Workers |-> IdleWorker]
    /\ child = [c \in Children |-> NoChild]
    /\ restarter = [r \in Restarters |-> "idle"]
    /\ restart_calls = 0
    /\ requested_resolution = None
    /\ saver = [s \in Savers |-> IdleSaver]
    /\ save_returned = NoResult
    /\ saved_files = {}
    /\ save_log = <<>>
    /\ now = 0
    /\ last_start = None

Init == InitSession /\ InitOthers

\* ------------------------------------------------------------- helpers
Min(S) == CHOOSE x \in S : \A y \in S : x <= y

\* A worker thread that has not ended.
Alive(w) == worker[w].pc \notin {"idle", "dead"}
\* A worker thread inside the while loop of _capture_loop.
Looping(w) == worker[w].pc \notin {"idle", "dead", "exit"}
\* A worker thread inside the body of that loop, past the test of the flag.
InLoopBody(w) == Looping(w) /\ worker[w].pc # "loop_check"

\* A capture child process that has not exited.
Live(c) == child[c].state \in {"running", "signalled"}

\* A child slot is free when no process runs in it and no handle to the process
\* that ran in it is left.
Referenced(c) ==
    \/ ffmpeg_process = c
    \/ \E w \in Workers : worker[w].popen_result = c \/ worker[w].wait_process = c
FreeChildren == {c \in Children : ~Live(c) /\ ~Referenced(c)}

\* Back to the top of the while loop: the locals of the iteration are rebound
\* before they are read again.
LoopTop(w, at) ==
    [IdleWorker EXCEPT !.pc = at, !.stopped_in_wait = worker[w].stopped_in_wait,
                       !.flag_cleared = worker[w].flag_cleared]

\* monitor_stderr: reads stderr line by line and sets the has_critical_error
\* event at the first line that contains a fatal signature (`in` is case
\* sensitive); the value is whether the event is set once the thread is joined.
RECURSIVE monitor_stderr(_)
monitor_stderr(lines) ==
    IF lines = <<>> THEN FALSE
    ELSE IF Head(lines) \in FatalSignatures THEN TRUE
    ELSE monitor_stderr(Tail(lines))


\* The verdict that looks at the has_critical_error event only.
ValidationPassed_IgnoresReturnCode(has_critical_error, code) ==
    ~has_critical_error

\* if has_critical_error.is_set() or process.returncode != 0: return False
ValidationPassed(has_critical_error, code) ==
    ~(has_critical_error \/ code # 0)

\* _validate_ffmpeg_config, as a function of what its validation process did
ValidateFfmpegConfig(lines, code) ==
    ValidationPassed(monitor_stderr(lines), code)

\* What _validate_ffmpeg_config can return, over all its validation process can do.
ValidationOutcomes ==
    {ValidateFfmpegConfig(lines, code) : lines \in StderrOutputs, code \in ReturnCodes}

\* ------------------------------------------------- _capture_loop, per step
\* while self.is_running: (read without the lock)
W_LoopCheck(w) ==
    /\ worker[w].pc = "loop_check"
    /\ worker' = IF is_running
                 THEN [worker EXCEPT ![w].pc = "detect_begin", ![w].flag_cleared = FALSE]
                 ELSE [worker EXCEPT ![w].pc = "exit"]
    /\ UNCHANGED <<session, child, callers, savers, disk, now, last_start, others>>

\* with self.lock: current_resolution = self.resolution; status; active_encoder
W_DetectBegin(w) ==
    /\ worker[w].pc = "detect_begin"
    /\ lock = None
    /\ status' = StDetecting
    /\ active_encoder' = "N/A"
    /\ worker' = [worker EXCEPT ![w].pc = "detect",
                                ![w].current_resolution = resolution,
                                ![w].stale = FALSE]
    /\ UNCHANGED <<ffmpeg_process, capture_thread, is_running, start_time, resolution,
                   last_video_device, last_audio_device>>
    /\ UNCHANGED <<child, callers, savers, disk, now, last_start, others>>

\* _capture_loop that goes on with the devices of the last capture when the
\* detection of this iteration finds none.
W_Detect_ReusesLast(w) ==
    /\ worker[w].pc = "detect"
    /\ \E v \in VideoDevices \cup {None}, a \in AudioDevices \cup {None} :
          LET found == v # None /\ a # None
              reuse == ~found /\ last_video_device # None /\ last_audio_device # None
          IN  worker' = [worker EXCEPT
                  ![w].video_device = IF reuse THEN last_video_device ELSE v,
                  ![w].audio_device = IF reuse THEN last_audio_device ELSE a,
                  ![w].detected = IF found THEN <<worker[w].current_resolution, v, a>>
                                  ELSE <<>>,
                  ![w].encoder_index = IF found \/ reuse THEN 1 ELSE 0,
                  ![w].pc = IF found \/ reuse THEN "validate_begin" ELSE "not_found"]
    /\ UNCHANGED <<session, child, callers, savers, disk, now, last_start, others>>

\* find_active_video_device / find_active_audio_device: each returns a device
\* or None; then `if not video_device or not audio_device`.
W_Detect(w) ==
    /\ worker[w].pc = "detect"
    /\ \E v \in VideoDevices \cup {None}, a \in AudioDevices \cup {None} :
          worker' = [worker EXCEPT
              ![w].video_device = v,
              ![w].audio_device = a,
              ![w].detected = IF v = None \/ a = None THEN <<>>
                              ELSE <<worker[w].current_resolution, v, a>>,
              ![w].encoder_index = IF v = None \/ a = None THEN 0 ELSE 1,
              ![w].pc = IF v = None \/ a = None THEN "not_found" ELSE "validate_begin"]
    /\ UNCHANGED <<session, child, callers, savers, disk, now, last_start, others>>

\* _capture_loop whose not-found branch leaves the loop instead of retrying.
W_NotFound_Leaves(w) ==
    /\ worker[w].pc = "not_found"
    /\ lock = None
    /\ status' = StNotFound
    /\ worker' = [worker EXCEPT ![w].pc = "exit"]
    /\ UNCHANGED <<ffmpeg_process, capture_thread, is_running, start_time, resolution,
                   last_video_device, last_audio_device, active_encoder>>
    /\ UNCHANGED <<child, callers, savers, disk, now, last_start, others>>

\* with self.lock: self.status = "Devices not found. Retrying..."
W_NotFound(w) ==
    /\ worker[w].pc = "not_found"
    /\ lock = None
    /\ status' = StNotFound
    /\ worker' = [worker EXCEPT ![w].pc = "sleep"]
    /\ UNCHANGED <<ffmpeg_process, capture_thread, is_running, start_time, resolution,
                   last_video_device, last_audio_device, active_encoder>>
    /\ UNCHANGED <<child, callers, savers, disk, now, last_start, others>>

\* time.sleep(3) / time.sleep(10) / time.sleep(5), then back to the loop test
W_Sleep(w) ==
    /\ worker[w].pc = "sleep"
    /\ worker' = [worker EXCEPT ![w] = LoopTop(w, "loop_check")]
    /\ UNCHANGED <<session, child, callers, savers, disk, now, last_start, others>>

\* _validate_ffmpeg_config: with self.lock: self.status = f"Validating {encoder}..."
W_ValidateBegin(w) ==
    /\ worker[w].pc = "validate_begin"
    /\ lock = None
    /\ status' = StValidating(encoder_fallback_order[worker[w].encoder_index])
    /\ worker' = [worker EXCEPT ![w].pc = "validating"]
    /\ UNCHANGED <<ffmpeg_process, capture_thread, is_running, start_time, resolution,
                   last_video_device, last_audio_device, active_encoder>>
    /\ UNCHANGED <<child, callers, savers, disk, now, last_start, others>>

\* _validate_ffmpeg_config: the validation process runs and its verdict returns;
\* on True: working_encoder = encoder; break
W_Validate(w) ==
    /\ worker[w].pc = "validating"
    /\ \E passed \in ValidationOutcomes :
          IF passed
          THEN worker' = [worker EXCEPT
                   ![w].working_encoder = encoder_fallback_order[worker[w].encoder_index],
                   ![w].verdicts = Append(@, TRUE),
                   ![w].validated = <<encoder_fallback_order[worker[w].encoder_index],
                                      worker[w].current_resolution,
                                      worker[w].video_device, worker[w].audio_device>>,
                   ![w].pc = "capture_begin"]
          ELSE worker' = [worker EXCEPT ![w].verdicts = Append(@, FALSE),
                                        ![w].pc = "validate_failed"]
    /\ UNCHANGED <<session, child, callers, savers, disk, now, last_start, others>>

\* else: if not self.is_running: break  -- else the next candidate; with no
\* candidate left, or after the break, working_encoder is None
W_ValidateFailed(w) ==
    /\ worker[w].pc = "validate_failed"
    /\ IF is_running /\ worker[w].encoder_index < Len(encoder_fallback_order)
       THEN worker' = [worker EXCEPT ![w].encoder_index = @ + 1,
                                     ![w].pc = "validate_begin"]
       ELSE worker' = [worker EXCEPT ![w].pc = "all_failed"]
    /\ UNCHANGED <<session, child, callers, savers, disk, now, last_start, others>>

\* _capture_loop whose all-encoders-failed branch leaves the loop instead of
\* retrying.
W_AllFailed_Leaves(w) ==
    /\ worker[w].pc = "all_failed"
    /\ lock = None
    /\ status' = StAllFailed
    /\ worker' = [worker EXCEPT ![w].pc = "exit"]
    /\ UNCHANGED <<ffmpeg_process, capture_thread, is_running, start_time, resolution,
                   last_video_device, last_audio_device, active_encoder>>
    /\ UNCHANGED <<child, callers, savers, disk, now, last_start, others>>

\* with self.lock: self.status = "All encoders failed validation. Retrying..."
W_AllFailed(w) ==
    /\ worker[w].pc = "all_failed"
    /\ lock = None
    /\ status' = StAllFailed
    /\ worker' = [worker EXCEPT ![w].pc = "sleep"]
    /\ UNCHANGED <<ffmpeg_process, capture_thread, is_running, start_time, resolution,
                   last_video_device, last_audio_device, active_encoder>>
    /\ UNCHANGED <<child, callers, savers, disk, now, last_start, others>>

\* with self.lock: last_video_device, last_audio_device, status, active_encoder
W_CaptureBegin(w) ==
    /\ worker[w].pc = "capture_begin"
    /\ lock = None
    /\ last_video_device' = worker[w].video_device
    /\ last_audio_device' = worker[w].audio_device
    /\ status' = StStartingCapture(worker[w].working_encoder)
    /\ active_encoder' = worker[w].working_encoder
    /\ worker' = [worker EXCEPT ![w].pc = "reset_buffer"]
    /\ UNCHANGED <<ffmpeg_process, capture_thread, is_running, start_time, resolution>>
    /\ UNCHANGED <<child, callers, savers, disk, now, last_start, others>>

\* _capture_loop that only makes sure the buffer directory exists and leaves
\* the files of an earlier capture in it.
W_ResetBuffer_KeepsFiles(w) ==
    /\ worker[w].pc = "reset_buffer"
    /\ worker' = [worker EXCEPT ![w].pc = "popen",
                                ![w].stages = Append(@, "reset_buffer")]
    /\ UNCHANGED <<session, child, callers, savers, disk, now, last_start, others>>

\* shutil.rmtree(RAM_DISK_PATH); os.makedirs(RAM_DISK_PATH)
W_ResetBuffer(w) ==
    /\ worker[w].pc = "reset_buffer"
    /\ worker' = [worker EXCEPT ![w].pc = "popen",
                                ![w].stages = Append(@, "reset_buffer")]
    /\ segment_files' = {}
    /\ UNCHANGED <<session, child, callers, savers, disk, now, last_start>>
    /\ UNCHANGED <<observers, validation, aside>>

\* subprocess.Popen(command, ...): the child runs from here on; the handle is
\* not yet stored in the session.
W_Popen(w) ==
    /\ worker[w].pc = "popen"
    /\ FreeChildren # {}
    /\ LET c == Min(FreeChildren) IN
         /\ child' = [child EXCEPT ![c] =
                [state |-> "running",
                 resolution |-> worker[w].current_resolution,
                 encoder |-> worker[w].working_encoder,
                 video_device |-> worker[w].video_device,
                 audio_device |-> worker[w].audio_device,
                 next_segment |-> 0, playlist |-> <<>>,
                 stale_launch |-> worker[w].stale /\ is_running]]
         /\ worker' = [worker EXCEPT ![w].popen_result = c, ![w].pc = "assign_process",
                                     ![w].stages = Append(@, "popen")]
    /\ UNCHANGED <<session, callers, savers, disk, now, last_start, others>>

\* _capture_loop whose "Recording with ..." status is written together with the
\* process handle, outside the lock.
W_AssignProcess_WritesStatus(w) ==
    /\ worker[w].pc = "assign_process"
    /\ ffmpeg_process' = worker[w].popen_result
    /\ status' = StRecording(worker[w].working_encoder)
    /\ worker' = [worker EXCEPT ![w].popen_result = NoProcess, ![w].pc = "record_begin"]
    /\ UNCHANGED <<capture_thread, is_running, start_time, resolution,
                   last_video_device, last_audio_device, active_encoder>>
    /\ UNCHANGED <<child, callers, savers, disk, now, last_start, others>>

\* self.ffmpeg_process = <the Popen object>  (stored without the lock)
W_AssignProcess(w) ==
    /\ worker[w].pc = "assign_process"
    /\ ffmpeg_process' = worker[w].popen_result
    /\ worker' = [worker EXCEPT ![w].popen_result = NoProcess, ![w].pc = "record_begin"]
    /\ UNCHANGED <<status, capture_thread, is_running, start_time, resolution,
                   last_video_device, last_audio_device, active_encoder>>
    /\ UNCHANGED <<child, callers, savers, disk, now, last_start, others>>

\* with self.lock: self.status = f"Recording with {working_encoder}"; start_time
W_RecordBegin(w) ==
    /\ worker[w].pc = "record_begin"
    /\ lock = None
    /\ status' = StRecording(worker[w].working_encoder)
    /\ start_time' = now
    /\ worker' = [worker EXCEPT ![w].pc = "communicate",
                                ![w].stages = Append(@, "start_time")]
    /\ UNCHANGED <<ffmpeg_process, capture_thread, is_running, resolution,
                   last_video_device, last_audio_device, active_encoder>>
    /\ UNCHANGED <<child, callers, savers, disk, now, last_start, others>>

\* self.ffmpeg_process.communicate(): the handle is read from the session again;
\* None has no communicate (AttributeError, which ends the thread).
W_Communicate(w) ==
    /\ worker[w].pc = "communicate"
    /\ IF ffmpeg_process = NoProcess
       THEN worker' = [worker EXCEPT ![w].pc = "dead"]
       ELSE worker' = [worker EXCEPT ![w].wait_process = ffmpeg_process,
                                     ![w].pc = "waiting"]
    /\ UNCHANGED <<session, child, callers, savers, disk, now, last_start, others>>

\* communicate() returns once the process it was called on has exited
W_ChildExited(w) ==
    /\ worker[w].pc = "waiting"
    /\ ~Live(worker[w].wait_process)
    /\ worker' = [worker EXCEPT ![w].wait_process = NoProcess, ![w].pc = "check_running"]
    /\ UNCHANGED <<session, child, callers, savers, disk, now, last_start, others>>

\* if self.is_running: (read without the lock); otherwise back to the loop test
W_CheckRunning(w) ==
    /\ worker[w].pc = "check_running"
    /\ IF is_running
       THEN worker' = [worker EXCEPT ![w].pc = "crash_report"]
       ELSE worker' = [worker EXCEPT ![w] = LoopTop(w, "loop_check")]
    /\ UNCHANGED <<session, child, callers, savers, disk, now, last_start, others>>

\* print(f"... Code: {self.ffmpeg_process.returncode}"): the handle is read from
\* the session once more; None has no returncode (AttributeError).
W_CrashReport(w) ==
    /\ worker[w].pc = "crash_report"
    /\ worker' = [worker EXCEPT ![w].pc =
            IF ffmpeg_process = NoProcess THEN "dead" ELSE "crash_status"]
    /\ UNCHANGED <<session, child, callers, savers, disk, now, last_start, others>>

\* _capture_loop whose crash branch leaves the loop instead of retrying.
W_CrashStatus_Leaves(w) ==
    /\ worker[w].pc = "crash_status"
    /\ lock = None
    /\ status' = StCrashed
    /\ worker' = [worker EXCEPT ![w].pc = "exit"]
    /\ UNCHANGED <<ffmpeg_process, capture_thread, is_running, start_time, resolution,
                   last_video_device, last_audio_device, active_encoder>>
    /\ UNCHANGED <<child, callers, savers, disk, now, last_start, others>>

\* with self.lock: self.status = "ffmpeg crashed. Restarting..."
W_CrashStatus(w) ==
    /\ worker[w].pc = "crash_status"
    /\ lock = None
    /\ status' = StCrashed
    /\ worker' = [worker EXCEPT ![w].pc = "sleep"]
    /\ UNCHANGED <<ffmpeg_process, capture_thread, is_running, start_time, resolution,
                   last_video_device, last_audio_device, active_encoder>>
    /\ UNCHANGED <<child, callers, savers, disk, now, last_start, others>>

\* after the loop: with self.lock: self.status = "Stopped"; the thread ends
W_Exit(w) ==
    /\ worker[w].pc = "exit"
    /\ lock = None
    /\ status' = StStopped
    /\ worker' = [worker EXCEPT ![w] = IdleWorker]
    /\ UNCHANGED <<ffmpeg_process, capture_thread, is_running, start_time, resolution,
                   last_video_device, last_audio_device, active_encoder>>
    /\ UNCHANGED <<child, callers, savers, disk, now, last_start, others>>

WorkerStep(w) ==
    \/ W_LoopCheck(w) \/ W_DetectBegin(w) \/ W_Detect(w) \/ W_NotFound(w)
    \/ W_Sleep(w) \/ W_ValidateBegin(w) \/ W_Validate(w) \/ W_ValidateFailed(w)
    \/ W_AllFailed(w) \/ W_CaptureBegin(w) \/ W_ResetBuffer(w) \/ W_Popen(w)
    \/ W_AssignProcess(w) \/ W_RecordBegin(w) \/ W_Communicate(w)
    \/ W_ChildExited(w) \/ W_CheckRunning(w) \/ W_CrashReport(w)
    \/ W_CrashStatus(w) \/ W_Exit(w)

\* ------------------------------------------------ the ffmpeg capture child
\* The child ends on its own (device unplugged, encoder error, ...).
ChildCrash(c) ==
    /\ child[c].state = "running"
    /\ child' = [child EXCEPT ![c] = NoChild]
    /\ UNCHANGED <<session, worker, callers, savers, disk, now, last_start, others>>

\* The child ends after the SIGTERM of Popen.terminate().
ChildTerminated(c) ==
    /\ child[c].state = "signalled"
    /\ child' = [child EXCEPT ![c] = NoChild]
    /\ UNCHANGED <<session, worker, callers, savers, disk, now, last_start, others>>

\* ffmpeg -f hls -hls_list_size HLS_LIST_SIZE -hls_flags delete_segments: the
\* child writes segment%06d.ts under its next number, lists it in its playlist,
\* and unlinks the files that fell off its own list.
ChildWriteSegment(c) ==
    /\ child[c].state = "running"
    /\ child[c].next_segment <= MaxSegmentNumber
    /\ LET n == child[c].next_segment
           listed == Append(child[c].playlist, n)
           kept == IF Len(listed) > HLS_LIST_SIZE THEN Tail(listed) ELSE listed
           dropped == {listed[i] : i \in 1..Len(listed)} \ {kept[i] : i \in 1..Len(kept)}
       IN /\ segment_files' = (segment_files \cup {n}) \ dropped
          /\ child' = [child EXCEPT ![c].next_segment = n + 1, ![c].playlist = kept]
    /\ UNCHANGED <<session, worker, callers, savers, disk, now, last_start>>
    /\ UNCHANGED <<observers, validation, aside>>

\* --------------------------------------------------------------- get_stats
\* len(glob.glob(RAM_DISK_PATH + '/*.ts'))
BufferedSegments == Cardinality(segment_files)

\* "uptime": 0, replaced by time.time() - self.start_time
\* `if self.is_running and self.start_time` (a time.time() value is never 0)
Uptime ==
    IF is_running /\ start_time # NoTime THEN now - start_time ELSE 0

\* with self.lock: the dictionary is filled from the session and the directory
GetStatsCall ==
    /\ getter = "idle"
    /\ lock = None
    /\ lock' = "get_stats"
    /\ stats' = [status |-> status, resolution |-> resolution,
                 encoder |-> active_encoder, uptime |-> Uptime,
                 buffered_segments |-> BufferedSegments,
                 max_segments |-> HLS_LIST_SIZE]
    /\ getter' = "free_m"
    /\ UNCHANGED <<session, worker, child, callers, savers, disk, now, last_start>>
    /\ UNCHANGED <<segment_files, validation, aside>>

\* still inside the `with` block: os.popen('free -m').read() runs the command
\* and waits for its output
GetStatsFreeM ==
    /\ getter = "free_m"
    /\ getter' = "return"
    /\ UNCHANGED <<session, worker, child, callers, savers, disk, now, last_start>>
    /\ UNCHANGED <<lock, stats, segment_files, validation, aside>>

\* return stats: leaving the `with` block releases the lock
GetStatsReturn ==
    /\ getter = "return"
    /\ lock' = None
    /\ getter' = "idle"
    /\ UNCHANGED <<session, worker, child, callers, savers, disk, now, last_start>>
    /\ UNCHANGED <<stats, segment_files, validation, aside>>

GetStats == GetStatsCall \/ GetStatsFreeM \/ GetStatsReturn

\* ------------------------------------------------------------ the callers
\* The worker positions that hold the result of a device detection.
HoldsDetection(w) ==
    worker[w].pc \in {"detect", "validate_begin", "validating", "validate_failed",
                      "capture_begin", "reset_buffer", "popen"}

\* start_capture without its `if self.is_running: return`.
StartCaptureBody_NoRunningCheck ==
    /\ \E w \in Workers : ~Alive(w)
    /\ LET w == Min({x \in Workers : ~Alive(x)}) IN
         /\ is_running' = TRUE
         /\ status' = StStarting
         /\ capture_thread' = w
         /\ worker' = [worker EXCEPT ![w] = [IdleWorker EXCEPT !.pc = "loop_check"]]
    /\ last_start' = "Capture thread started."
    /\ UNCHANGED <<ffmpeg_process, start_time, resolution, last_video_device,
                   last_audio_device, active_encoder>>

\* start_capture: the whole body is one `with self.lock:` block.
StartCaptureBody ==
    IF is_running
    THEN /\ last_start' = "Capture is already running."
         /\ UNCHANGED <<session, worker>>
    ELSE /\ \E w \in Workers : ~Alive(w)
         /\ LET w == Min({x \in Workers : ~Alive(x)}) IN
              /\ is_running' = TRUE
              /\ status' = StStarting
              /\ capture_thread' = w
              /\ worker' = [worker EXCEPT ![w] = [IdleWorker EXCEPT !.pc = "loop_check"]]
         /\ last_start' = "Capture thread started."
         /\ UNCHANGED <<ffmpeg_process, start_time, resolution, last_video_device,
                        last_audio_device, active_encoder>>

\* stop_capture, called from `by`: the whole body is one `with self.lock:` block.
\* Popen.terminate() sends SIGTERM to a process that has not exited.
StopCaptureBody(by) ==
    IF ~is_running
    THEN UNCHANGED <<session, worker, child>>
    ELSE /\ is_running' = FALSE
         /\ child' = IF ffmpeg_process # NoProcess /\ child[ffmpeg_process].state = "running"
                     THEN [child EXCEPT ![ffmpeg_process].state = "signalled"]
                     ELSE child
         /\ ffmpeg_process' = NoProcess
         /\ start_time' = NoTime
         /\ worker' = [w \in Workers |->
                [worker[w] EXCEPT
                   !.stale = @ \/ HoldsDetection(w),
                   !.flag_cleared = @ \/ Alive(w),
                   !.stopped_in_wait =
                       IF /\ worker[w].pc = "waiting"
                          /\ worker[w].wait_process = ffmpeg_process
                          /\ @ = None
                       THEN by ELSE @]]
         /\ UNCHANGED <<status, capture_thread, resolution, last_video_device,
                        last_audio_device, active_encoder>>

StartCapture ==
    /\ lock = None
    /\ StartCaptureBody
    /\ UNCHANGED <<child, callers, savers, disk, now, others>>

StopCapture ==
    /\ lock = None
    /\ StopCaptureBody("stop_capture")
    /\ UNCHANGED <<callers, savers, disk, now, last_start, others>>

\* restart_capture: self.stop_capture(), then time.sleep(1)
RestartCapture(r) ==
    /\ restarter[r] = "idle"
    /\ restart_calls < MaxRestartCalls
    /\ restart_calls' = restart_calls + 1
    /\ lock = None
    /\ StopCaptureBody("restart_capture")
    /\ restarter' = [restarter EXCEPT ![r] = "sleep"]
    /\ UNCHANGED requested_resolution
    /\ UNCHANGED <<savers, disk, now, last_start, others>>

\* change_resolution that writes self.resolution without taking the lock.
ChangeResolution_NoLock(r, new_resolution) ==
    /\ restarter[r] = "idle"
    /\ restart_calls < MaxRestartCalls
    /\ restart_calls' = restart_calls + 1
    /\ resolution' = new_resolution
    /\ requested_resolution' = new_resolution
    /\ restarter' = [restarter EXCEPT ![r] = "restart"]
    /\ UNCHANGED <<ffmpeg_process, status, capture_thread, is_running, start_time,
                   last_video_device, last_audio_device, active_encoder>>
    /\ UNCHANGED <<worker, child, savers, disk, now, last_start, others>>

\* change_resolution: with self.lock: self.resolution = new_resolution
ChangeResolution(r, new_resolution) ==
    /\ restarter[r] = "idle"
    /\ restart_calls < MaxRestartCalls
    /\ restart_calls' = restart_calls + 1
    /\ lock = None
    /\ resolution' = new_resolution
    /\ requested_resolution' = new_resolution
    /\ restarter' = [restarter EXCEPT ![r] = "restart"]
    /\ UNCHANGED <<ffmpeg_process, status, capture_thread, is_running, start_time,
                   last_video_device, last_audio_device, active_encoder>>
    /\ UNCHANGED <<worker, child, savers, disk, now, last_start, others>>

\* change_resolution: self.restart_capture(), its stop_capture
ChangeResolutionStop(r) ==
    /\ restarter[r] = "restart"
    /\ lock = None
    /\ StopCaptureBody("change_resolution")
    /\ restarter' = [restarter EXCEPT ![r] = "sleep"]
    /\ UNCHANGED <<restart_calls, requested_resolution>>
    /\ UNCHANGED <<savers, disk, now, last_start, others>>

\* restart_capture: after time.sleep(1), self.start_capture()
RestartStart(r) ==
    /\ restarter[r] = "sleep"
    /\ lock = None
    /\ StartCaptureBody
    /\ restarter' = [restarter EXCEPT ![r] = "idle"]
    /\ UNCHANGED <<restart_calls, requested_resolution>>
    /\ UNCHANGED <<child, savers, disk, now, others>>

\* The values a POST to /api/change_resolution may carry in its 'resolution'
\* key; None is what request.json.get returns for a missing key.
RequestedResolutions == Resolutions \cup {"1280x720", None}

\* An /api/change_resolution route that passes every value on.
ApiChangeResolution_NoWhitelist(r, res) ==
    ChangeResolution(r, res)

\* api_change_resolution: if res in ["640x480", "320x240", "160x120"] the
\* manager's change_resolution(res) is called (the success response follows its
\* return); otherwise the error response is returned with code 400
ApiChangeResolution(r, res) ==
    \/ /\ res \in Resolutions
       /\ ChangeResolution(r, res)
    \/ /\ res \notin Resolutions
       /\ api_response' = [status |-> "error", code |-> 400]
       /\ UNCHANGED <<session, worker, child, callers, savers, disk, now, last_start>>
       /\ UNCHANGED <<observers, segment_files, validation, detector, settled,
                      autorecorder>>

\* ------------------------------------------------------------ save_to_disk
\* save_to_disk whose first test is only `if not self.is_running`.
SaveCall_NoStatusCheck(s) ==
    /\ saver[s].pc = "idle"
    /\ lock = None
    /\ Len(save_log) < MaxSaves
    /\ IF ~is_running
       THEN /\ save_returned' = NotRunningError
            /\ UNCHANGED <<status, saver>>
       ELSE /\ status' = StSaving
            /\ saver' = [saver EXCEPT ![s].pc = "probe"]
            /\ UNCHANGED save_returned
    /\ UNCHANGED <<ffmpeg_process, capture_thread, is_running, start_time, resolution,
                   last_video_device, last_audio_device, active_encoder>>
    /\ UNCHANGED <<worker, child, callers, disk, now, last_start, others>>


\* save_to_disk whose first `with self.lock:` block extends over the whole body.
SaveCall_KeepsLock(s) ==
    /\ saver[s].pc = "idle"
    /\ Len(save_log) < MaxSaves
    /\ lock = None
    /\ IF ~is_running \/ ~StartsWithRecording(status)
       THEN /\ save_returned' = NotRunningError
            /\ UNCHANGED <<status, saver, lock>>
       ELSE /\ status' = StSaving
            /\ saver' = [saver EXCEPT ![s].pc = "probe"]
            /\ lock' = "save_to_disk"
            /\ UNCHANGED save_returned
    /\ UNCHANGED <<ffmpeg_process, capture_thread, is_running, start_time, resolution,
                   last_video_device, last_audio_device, active_encoder>>
    /\ UNCHANGED <<worker, child, callers, disk, now, last_start>>
    /\ UNCHANGED <<getter, stats, segment_files, validation, aside>>

\* with self.lock: not running or not recording -> the error; else "Saving video..."
SaveCall(s) ==
    /\ saver[s].pc = "idle"
    /\ lock = None
    /\ Len(save_log) < MaxSaves
    /\ IF ~is_running \/ ~StartsWithRecording(status)
       THEN /\ save_returned' = NotRunningError
            /\ UNCHANGED <<status, saver>>
       ELSE /\ status' = StSaving
            /\ saver' = [saver EXCEPT ![s].pc = "probe"]
            /\ UNCHANGED save_returned
    /\ UNCHANGED <<ffmpeg_process, capture_thread, is_running, start_time, resolution,
                   last_video_device, last_audio_device, active_encoder>>
    /\ UNCHANGED <<worker, child, callers, disk, now, last_start, others>>

\* ffprobe on the playlist; on success the time stamp of the output file is taken
SaveProbe(s) ==
    /\ saver[s].pc = "probe"
    /\ \E probe_ok \in BOOLEAN :
          saver' = IF probe_ok
                   THEN [saver EXCEPT ![s].pc = "remux", ![s].timestamp = Timestamp(now),
                                      ![s].ran = Append(@, <<"ffprobe", TRUE>>)]
                   ELSE [saver EXCEPT ![s].pc = "probe_failed",
                                      ![s].ran = Append(@, <<"ffprobe", FALSE>>)]
    /\ UNCHANGED save_returned
    /\ UNCHANGED <<session, worker, child, callers, disk, now, last_start, others>>

\* except: with self.lock: self.status = f"Recording with {self.active_encoder}"
SaveProbeFailed(s) ==
    /\ saver[s].pc = "probe_failed"
    /\ lock = None
    /\ status' = StRecording(active_encoder)
    /\ saver' = [saver EXCEPT ![s] = IdleSaver]
    /\ save_returned' = BufferInvalidError
    /\ UNCHANGED <<ffmpeg_process, capture_thread, is_running, start_time, resolution,
                   last_video_device, last_audio_device, active_encoder>>
    /\ UNCHANGED <<worker, child, callers, disk, now, last_start, others>>


\* save_to_disk whose remux result is "success" whatever the remux did.
SaveRemux_AlwaysSuccess(s) ==
    /\ saver[s].pc = "remux"
    /\ \E remux_ok \in BOOLEAN :
          /\ IF remux_ok
             THEN /\ saved_files' = saved_files \cup {saver[s].timestamp}
                  /\ save_log' = Append(save_log, saver[s].timestamp)
             ELSE UNCHANGED disk
          /\ saver' = [saver EXCEPT ![s].pc = "restore",
                                    ![s].result = SaveSuccess(saver[s].timestamp),
                                    ![s].ran = Append(@, <<"ffmpeg", remux_ok>>)]
    /\ UNCHANGED save_returned
    /\ UNCHANGED <<session, worker, child, callers, now, last_start, others>>

\* ffmpeg -y -i playlist -c copy recording_<timestamp>.mp4 (-y overwrites)
SaveRemux(s) ==
    /\ saver[s].pc = "remux"
    /\ \E remux_ok \in BOOLEAN :
          IF remux_ok
          THEN /\ saved_files' = saved_files \cup {saver[s].timestamp}
               /\ save_log' = Append(save_log, saver[s].timestamp)
               /\ saver' = [saver EXCEPT ![s].pc = "restore",
                                         ![s].result = SaveSuccess(saver[s].timestamp),
                                         ![s].ran = Append(@, <<"ffmpeg", TRUE>>)]
          ELSE /\ saver' = [saver EXCEPT ![s].pc = "restore",
                                         ![s].result = SaveFailedError,
                                         ![s].ran = Append(@, <<"ffmpeg", FALSE>>)]
               /\ UNCHANGED disk
    /\ UNCHANGED save_returned
    /\ UNCHANGED <<session, worker, child, callers, now, last_start, others>>

\* with self.lock: self.status = f"Recording with {self.active_encoder}"; return result
SaveRestore(s) ==
    /\ saver[s].pc = "restore"
    /\ lock = None
    /\ status' = StRecording(active_encoder)
    /\ saver' = [saver EXCEPT ![s] = IdleSaver]
    /\ save_returned' = saver[s].result
    /\ UNCHANGED <<ffmpeg_process, capture_thread, is_running, start_time, resolution,
                   last_video_device, last_audio_device, active_encoder>>
    /\ UNCHANGED <<worker, child, callers, disk, now, last_start, others>>

SaverStep(s) ==
    SaveCall(s) \/ SaveProbe(s) \/ SaveProbeFailed(s) \/ SaveRemux(s) \/ SaveRestore(s)

\* ------------------------------------------------------------ the clock
Tick ==
    /\ now < MaxClock
    /\ now' = now + 1
    /\ UNCHANGED <<session, worker, child, callers, savers, disk, last_start, others>>

\* ------------------------------------------------------ the specification
\* The session after the start_capture() of __main__: the flag set, the first
\* worker thread at the top of its loop.
InitStarted ==
    /\ ffmpeg_process = NoProcess
    /\ status = StStarting
    /\ capture_thread = 1
    /\ is_running = TRUE
    /\ start_time = NoTime
    /\ resolution = "640x480"
    /\ last_video_device = None
    /\ last_audio_device = None
    /\ active_encoder = "N/A"
    /\ worker = [w \in Workers |->
                    IF w = 1 THEN [IdleWorker EXCEPT !.pc = "loop_check"] ELSE IdleWorker]
    /\ child = [c \in Children |-> NoChild]
    /\ restarter = [r \in Restarters |-> "idle"]
    /\ restart_calls = 0
    /\ requested_resolution = None
    /\ saver = [s \in Savers |-> IdleSaver]
    /\ save_returned = NoResult
    /\ saved_files = {}
    /\ save_log = <<>>
    /\ now = 0
    /\ last_start = "Capture thread started."
    /\ InitOthers

\* The capture session driven by start_capture and stop_capture calls.
Next ==
    \/ StartCapture
    \/ StopCapture
    \/ \E w \in Workers : WorkerStep(w)
    \/ \E c \in Children : ChildCrash(c)
    \/ \E c \in Children : ChildTerminated(c)

Spec == Init /\ [][Next]_vars

\* The started session driven by restart_capture and change_resolution calls.
NextRestart ==
    \/ \E r \in Restarters : RestartCapture(r)
    \/ \E r \in Restarters, res \in Resolutions : ChangeResolution(r, res)
    \/ \E r \in Restarters : ChangeResolutionStop(r)
    \/ \E r \in Restarters : RestartStart(r)
    \/ \E w \in Workers : WorkerStep(w)
    \/ \E c \in Children : ChildCrash(c)
    \/ \E c \in Children : ChildTerminated(c)

SpecRestart == InitStarted /\ [][NextRestart]_vars

\* The started session with save_to_disk callers, a stop_capture caller and the
\* wall clock.
NextSave ==
    \/ StopCapture
    \/ \E w \in Workers : WorkerStep(w)
    \/ \E c \in Children : ChildCrash(c)
    \/ \E c \in Children : ChildTerminated(c)
    \/ \E s \in Savers : SaverStep(s)
    \/ Tick

SpecSave == InitStarted /\ [][NextSave]_vars

\* The session driven by callers that call start_capture at any time while the
\* session runs, and otherwise only once the previous worker thread has ended.
StartCaptureSettled ==
    /\ is_running \/ \A w \in Workers : ~Alive(w)
    /\ StartCapture

NextStart ==
    \/ StartCaptureSettled
    \/ StopCapture
    \/ \E w \in Workers : WorkerStep(w)
    \/ \E c \in Children : ChildCrash(c)
    \/ \E c \in Children : ChildTerminated(c)

SpecStart == Init /\ [][NextStart]_vars

\* The started session with save_to_disk, stop_capture and get_stats callers.
NextStats ==
    \/ StopCapture
    \/ \E w \in Workers : WorkerStep(w)
    \/ \E c \in Children : ChildCrash(c)
    \/ \E c \in Children : ChildTerminated(c)
    \/ \E s \in Savers : SaverStep(s)
    \/ GetStats

SpecStats == InitStarted /\ [][NextStats]_vars

\* The started session with a restart_capture caller and capture children that
\* write their segment files.
NextBuffer ==
    \/ \E r \in Restarters : RestartCapture(r)
    \/ \E r \in Restarters : RestartStart(r)
    \/ \E w \in Workers : WorkerStep(w)
    \/ \E c \in Children : ChildCrash(c)
    \/ \E c \in Children : ChildTerminated(c)
    \/ \E c \in Children : ChildWriteSegment(c)

SpecBuffer == InitStarted /\ [][NextBuffer]_vars


\* The started session with /api/change_resolution requests.
NextApi ==
    \/ \E r \in Restarters, res \in RequestedResolutions : ApiChangeResolution(r, res)
    \/ \E r \in Restarters : ChangeResolutionStop(r)
    \/ \E r \in Restarters : RestartStart(r)
    \/ \E w \in Workers : WorkerStep(w)
    \/ \E c \in Children : ChildCrash(c)
    \/ \E c \in Children : ChildTerminated(c)

SpecApi == InitStarted /\ [][NextApi]_vars

\* The started session with /api/change_resolution and /api/status requests,
\* its capture children ending only when they are terminated.
NextSnapshot ==
    \/ \E r \in Restarters, res \in RequestedResolutions : ApiChangeResolution(r, res)
    \/ \E r \in Restarters : ChangeResolutionStop(r)
    \/ \E r \in Restarters : RestartStart(r)
    \/ \E w \in Workers : WorkerStep(w)
    \/ \E c \in Children : ChildTerminated(c)
    \/ GetStats

SpecSnapshot == InitStarted /\ [][NextSnapshot]_vars


\* From here on every probe of the detector succeeds, every validation passes
\* and no capture child exits by itself.
Settle ==
    /\ ~settled
    /\ settled' = TRUE
    /\ UNCHANGED <<session, worker, child, callers, savers, disk, now, last_start>>
    /\ UNCHANGED <<observers, segment_files, validation, detector, api_response,
                   autorecorder>>

\* A step of the worker thread; once the environment has settled, its detection
\* finds both devices and its validation passes.
SettledWorkerStep(w) ==
    /\ WorkerStep(w)
    /\ settled => worker'[w].pc \notin {"not_found", "validate_failed"}

\* The started session with a stop_capture caller, its devices and its encoder
\* failing until the environment settles.
NextLive ==
    \/ Settle
    \/ StopCapture
    \/ \E w \in Workers : SettledWorkerStep(w)
    \/ \E c \in Children : ChildCrash(c) /\ ~settled
    \/ \E c \in Children : ChildTerminated(c)

\* The worker is a thread of its own: it is scheduled again and again.
SpecLive ==
    /\ InitStarted
    /\ [][NextLive]_vars
    /\ \A w \in Workers : WF_vars(SettledWorkerStep(w))


\* The started session with a stop_capture caller, /api/status requests and the
\* wall clock.
NextUptime ==
    \/ StopCapture
    \/ \E w \in Workers : WorkerStep(w)
    \/ \E c \in Children : ChildCrash(c)
    \/ \E c \in Children : ChildTerminated(c)
    \/ GetStats
    \/ Tick

SpecUptime == InitStarted /\ [][NextUptime]_vars


\* ---------------------------------------------- autoRecorder: dvr_app.py
\* The status messages of autoRecorder's CaptureManager that the other one does
\* not have.
StStartingFfmpeg == <<"Starting ffmpeg...">>
StRecordingAt(res) == <<"Recording at ", res>>

\* status.startswith("Recording") over the messages of autoRecorder
AR_StartsWithRecording(s) == s[1] = "Recording at "

\* What _get_encoder may return, depending on the encoders ffmpeg lists.
AR_Encoders == {"h264_v4l2m2m", "h264_omx", "libx264"}

\* while self.is_running: (read without the lock)
AR_LoopCheck(w) == W_LoopCheck(w)

\* with self.lock: current_resolution = self.resolution; status
AR_DetectBegin(w) ==
    /\ worker[w].pc = "detect_begin"
    /\ lock = None
    /\ status' = StDetecting
    /\ worker' = [worker EXCEPT ![w].pc = "detect",
                                ![w].current_resolution = resolution]
    /\ UNCHANGED <<ffmpeg_process, capture_thread, is_running, start_time, resolution,
                   last_video_device, last_audio_device, active_encoder>>
    /\ UNCHANGED <<child, callers, savers, disk, now, last_start, others>>

\* the two detector calls, then `if not video_device or not audio_device`
AR_Detect(w) ==
    /\ worker[w].pc = "detect"
    /\ \E v \in VideoDevices \cup {None}, a \in AudioDevices \cup {None} :
          worker' = [worker EXCEPT
              ![w].video_device = v,
              ![w].audio_device = a,
              ![w].pc = IF v = None \/ a = None THEN "not_found" ELSE "starting"]
    /\ UNCHANGED <<session, child, callers, savers, disk, now, last_start, others>>

\* with self.lock: self.status = "Devices not found. Retrying..."
AR_NotFound(w) == W_NotFound(w)

\* time.sleep(5); continue -- and the sleep after a crash
AR_Sleep(w) == W_Sleep(w)

\* with self.lock: last_video_device, last_audio_device, status
AR_Starting(w) ==
    /\ worker[w].pc = "starting"
    /\ lock = None
    /\ last_video_device' = worker[w].video_device
    /\ last_audio_device' = worker[w].audio_device
    /\ status' = StStartingFfmpeg
    /\ worker' = [worker EXCEPT ![w].pc = "reset_buffer"]
    /\ UNCHANGED <<ffmpeg_process, capture_thread, is_running, start_time, resolution,
                   active_encoder>>
    /\ UNCHANGED <<child, callers, savers, disk, now, last_start, others>>

\* shutil.rmtree(RAM_DISK_PATH); os.makedirs(RAM_DISK_PATH)
AR_ResetBuffer(w) == W_ResetBuffer(w)

\* encoder = self._get_encoder(); subprocess.Popen(command, ...)
AR_Popen(w) ==
    /\ worker[w].pc = "popen"
    /\ FreeChildren # {}
    /\ \E encoder \in AR_Encoders :
         LET c == Min(FreeChildren) IN
         /\ child' = [child EXCEPT ![c] =
                [NoChild EXCEPT !.state = "running",
                                !.resolution = worker[w].current_resolution,
                                !.encoder = encoder,
                                !.video_device = worker[w].video_device,
                                !.audio_device = worker[w].audio_device]]
         /\ worker' = [worker EXCEPT ![w].popen_result = c, ![w].pc = "assign_process"]
    /\ UNCHANGED <<session, callers, savers, disk, now, last_start, others>>

\* self.ffmpeg_process = <the Popen object>  (stored without the lock)
AR_AssignProcess(w) == W_AssignProcess(w)

\* with self.lock: self.status = f"Recording at {current_resolution}"; start_time
AR_RecordBegin(w) ==
    /\ worker[w].pc = "record_begin"
    /\ lock = None
    /\ status' = StRecordingAt(worker[w].current_resolution)
    /\ start_time' = now
    /\ worker' = [worker EXCEPT ![w].pc = "communicate"]
    /\ UNCHANGED <<ffmpeg_process, capture_thread, is_running, resolution,
                   last_video_device, last_audio_device, active_encoder>>
    /\ UNCHANGED <<child, callers, savers, disk, now, last_start, others>>

\* self.ffmpeg_process.communicate(), up to its return
AR_Communicate(w) == W_Communicate(w) \/ W_ChildExited(w)

\* if self.is_running: print(... self.ffmpeg_process.returncode ...)
AR_CheckRunning(w) == W_CheckRunning(w) \/ W_CrashReport(w)

\* with self.lock: self.status = "ffmpeg crashed. Restarting..."
AR_CrashStatus(w) == W_CrashStatus(w)

\* after the loop: with self.lock: self.status = "Stopped"
AR_Exit(w) == W_Exit(w)

AR_WorkerStep(w) ==
    \/ AR_LoopCheck(w) \/ AR_DetectBegin(w) \/ AR_Detect(w) \/ AR_NotFound(w)
    \/ AR_Sleep(w) \/ AR_Starting(w) \/ AR_ResetBuffer(w) \/ AR_Popen(w)
    \/ AR_AssignProcess(w) \/ AR_RecordBegin(w) \/ AR_Communicate(w)
    \/ AR_CheckRunning(w) \/ AR_CrashStatus(w) \/ AR_Exit(w)

\* autoRecorder's stop_capture, called on a thread that holds no lock: the body
\* is one `with self.lock:` block, the same as in the other CaptureManager.
AR_StopCapture ==
    /\ lock = None
    /\ StopCaptureBody("stop_capture")
    /\ UNCHANGED <<callers, savers, disk, now, last_start, others>>

\* os.path.exists(playlist_path): ffmpeg writes playlist.m3u8 with its first
\* segment, and the capture stage removes it with the directory.
PlaylistExists == segment_files # {}

PlaylistNotFoundError == [status |-> "error", message |-> <<"Playlist file not found.">>]

\* save_to_disk: with self.lock: not running -> the error; else "Saving video..."
AR_SaveCall(s) ==
    /\ saver[s].pc = "idle"
    /\ lock = None
    /\ Len(save_log) < MaxSaves
    /\ IF ~is_running
       THEN /\ save_returned' = NotRunningError
            /\ UNCHANGED <<status, saver>>
       ELSE /\ status' = StSaving
            /\ saver' = [saver EXCEPT ![s].pc = "check_playlist",
                                      ![s].status_before = status]
            /\ UNCHANGED save_returned
    /\ UNCHANGED <<ffmpeg_process, capture_thread, is_running, start_time, resolution,
                   last_video_device, last_audio_device, active_encoder>>
    /\ UNCHANGED <<worker, child, callers, disk, now, last_start, others>>

\* if not os.path.exists(playlist_path): ...; else the time stamp is taken
AR_SaveCheckPlaylist(s) ==
    /\ saver[s].pc = "check_playlist"
    /\ saver' = IF PlaylistExists
                THEN [saver EXCEPT ![s].pc = "remux", ![s].timestamp = Timestamp(now)]
                ELSE [saver EXCEPT ![s].pc = "playlist_missing"]
    /\ UNCHANGED save_returned
    /\ UNCHANGED <<session, worker, child, callers, disk, now, last_start, others>>

\* with self.lock: self.status = f"Recording at {self.resolution}"; return error
AR_SavePlaylistMissing(s) ==
    /\ saver[s].pc = "playlist_missing"
    /\ lock = None
    /\ status' = StRecordingAt(resolution)
    /\ saver' = [saver EXCEPT ![s] = IdleSaver]
    /\ save_returned' = PlaylistNotFoundError
    /\ UNCHANGED <<ffmpeg_process, capture_thread, is_running, start_time, resolution,
                   last_video_device, last_audio_device, active_encoder>>
    /\ UNCHANGED <<worker, child, callers, disk, now, last_start, others>>

\* subprocess.run(save_command, check=True, ...) with ffmpeg -y; the result is
\* "success", or "error" on CalledProcessError
AR_SaveRemux(s) ==
    /\ saver[s].pc = "remux"
    /\ \E remux_ok \in BOOLEAN :
          IF remux_ok
          THEN /\ saved_files' = saved_files \cup {saver[s].timestamp}
               /\ save_log' = Append(save_log, saver[s].timestamp)
               /\ saver' = [saver EXCEPT ![s].pc = "restore",
                                         ![s].result = SaveSuccess(saver[s].timestamp)]
          ELSE /\ saver' = [saver EXCEPT ![s].pc = "restore",
                                         ![s].result = SaveFailedError]
               /\ UNCHANGED disk
    /\ UNCHANGED save_returned
    /\ UNCHANGED <<session, worker, child, callers, now, last_start, others>>

\* with self.lock: self.status = f"Recording at {self.resolution}"; return result
AR_SaveRestore(s) ==
    /\ saver[s].pc = "restore"
    /\ lock = None
    /\ status' = StRecordingAt(resolution)
    /\ saver' = [saver EXCEPT ![s] = IdleSaver]
    /\ save_returned' = saver[s].result
    /\ UNCHANGED <<ffmpeg_process, capture_thread, is_running, start_time, resolution,
                   last_video_device, last_audio_device, active_encoder>>
    /\ UNCHANGED <<worker, child, callers, disk, now, last_start, others>>

AR_SaverStep(s) ==
    \/ AR_SaveCall(s) \/ AR_SaveCheckPlaylist(s) \/ AR_SavePlaylistMissing(s)
    \/ AR_SaveRemux(s) \/ AR_SaveRestore(s)

\* autoRecorder after the start_capture() of __main__, with save_to_disk
\* callers, a stop_capture caller and capture children that write segments.
NextAutoSave ==
    \/ AR_StopCapture
    \/ \E w \in Workers : AR_WorkerStep(w)
    \/ \E c \in Children : ChildCrash(c)
    \/ \E c \in Children : ChildTerminated(c)
    \/ \E c \in Children : ChildWriteSegment(c)
    \/ \E s \in Savers : AR_SaverStep(s)

SpecAutoSave == InitStarted /\ [][NextAutoSave]_vars


\* What neither the Tk main thread nor the manager calls it makes touch.
beside_gui ==
    <<callers, savers, disk, now, getter, stats, segment_files, validation,
      detector, settled, api_response, recorder, request>>

\* The pause button: toggle_pause takes the manager's lock (`with
\* self.manager.lock`), tests the status and opens the confirmation box.
TogglePause ==
    /\ gui.pc = "idle"
    /\ lock = None
    /\ lock' = "toggle_pause"
    /\ gui' = [pc |-> "ask", handler |-> "toggle_pause"]
    /\ UNCHANGED <<session, worker, child, last_start, beside_gui>>

\* messagebox.askyesno returns: on yes toggle_pause calls stop_capture() if the
\* status starts with "Recording" and start_capture() otherwise, still inside
\* its `with` block; on no it leaves the block.
TogglePauseAnswer ==
    /\ gui.pc = "ask"
    /\ \E yes \in BOOLEAN :
          IF yes
          THEN /\ gui' = [gui EXCEPT !.pc = IF AR_StartsWithRecording(status)
                                            THEN "stop_capture" ELSE "start_capture"]
               /\ UNCHANGED lock
          ELSE /\ gui' = IdleGui
               /\ lock' = None
    /\ UNCHANGED <<session, worker, child, last_start, beside_gui>>

\* The stop button: stop_program asks and, on yes, calls stop_capture().
StopProgram ==
    /\ gui.pc = "idle"
    /\ gui' = [pc |-> "stop_capture", handler |-> "stop_program"]
    /\ UNCHANGED <<session, worker, child, last_start, lock, beside_gui>>

\* The handler's own `with` block ends when the manager call has returned;
\* stop_program goes on to root.quit(), after which __main__ calls
\* stop_capture() once more.
GuiCallReturns ==
    /\ gui' = CASE gui.handler = "toggle_pause" -> IdleGui
                 [] gui.handler = "stop_program" -> [pc |-> "stop_capture", handler |-> "main"]
                 [] gui.handler = "main" /\ gui.pc = "start_capture" -> IdleGui
                 [] OTHER -> [pc |-> "finished", handler |-> "main"]

\* stop_capture() called on the Tk main thread: `with self.lock:` waits until
\* the lock is free, whoever holds it (threading.Lock is not reentrant).
GuiStopCapture ==
    /\ gui.pc = "stop_capture"
    /\ lock = None
    /\ StopCaptureBody(gui.handler)
    /\ GuiCallReturns
    /\ UNCHANGED <<last_start, lock, beside_gui>>

\* start_capture() called on the Tk main thread, in the same way.
GuiStartCapture ==
    /\ gui.pc = "start_capture"
    /\ lock = None
    /\ StartCaptureBody
    /\ GuiCallReturns
    /\ UNCHANGED <<child, lock, beside_gui>>

GuiStep ==
    \/ TogglePause \/ TogglePauseAnswer \/ StopProgram
    \/ GuiStopCapture \/ GuiStartCapture

\* __main__ of autoRecorder: the manager is constructed and the main thread is
\* about to call start_capture(), before it runs the GUI.
InitAutoMain ==
    /\ InitSession
    /\ lock = None
    /\ getter = "idle"
    /\ stats = NoStats
    /\ segment_files = {}
    /\ stderr_lines = <<>>
    /\ returncode = 0
    /\ verdict = <<>>
    /\ validator = IdleValidator
    /\ detector = IdleDetector
    /\ settled = FALSE
    /\ api_response = NoResponse
    /\ gui = [pc |-> "start_capture", handler |-> "main"]
    /\ recorder = [p \in Recorders |-> "none"]
    /\ request = [h \in Handlers |-> IdleRequest]

NextPause ==
    \/ GuiStep
    \/ \E w \in Workers : AR_WorkerStep(w)
    \/ \E c \in Children : ChildCrash(c)
    \/ \E c \in Children : ChildTerminated(c)

\* The Tk main thread and the worker thread are scheduled again and again, and
\* the user answers a confirmation box.
SpecPause ==
    /\ InitAutoMain
    /\ [][NextPause]_vars
    /\ WF_vars(TogglePauseAnswer \/ GuiStopCapture \/ GuiStartCapture)
    /\ \A w \in Workers : WF_vars(AR_WorkerStep(w))


\* ------------------------------------------- autoRecorder: web_server.py
\* Everything of the capture manager, which the web server does not touch.
manager ==
    <<session, worker, child, callers, savers, disk, now, last_start,
      observers, segment_files, validation, detector, settled, api_response>>

\* The camera_recorder processes that have not exited: the ones pkill -f matches.
AliveRecorders == {p \in Recorders : recorder[p] # "none"}

\* A POST to /save_and_restart or /relaunch_recorder is taken up by a thread.
RequestArrives(h, route) ==
    /\ request[h].pc = "idle"
    /\ request' = [request EXCEPT ![h] = [pc |-> "stop", route |-> route, response |-> 0]]
    /\ UNCHANGED <<manager, gui, recorder>>

\* stop_recorder_process: pkill -SIGINT -f sends the signal to every matching
\* process and the thread goes to sleep; with no matching process pkill fails
\* (CalledProcessError) and the function returns at once.
StopRecorderProcess(h) ==
    /\ request[h].pc = "stop"
    /\ IF AliveRecorders # {}
       THEN /\ recorder' = [p \in Recorders |->
                               IF recorder[p] = "running" THEN "signalled" ELSE recorder[p]]
            /\ request' = [request EXCEPT ![h].pc = "sleep"]
       ELSE /\ request' = [request EXCEPT ![h].pc = "launch"]
            /\ UNCHANGED recorder
    /\ UNCHANGED <<manager, gui>>

\* stop_recorder_process: time.sleep(3) is over; return True (the value is not
\* looked at by the routes)
StopSleepOver(h) ==
    /\ request[h].pc = "sleep"
    /\ request' = [request EXCEPT ![h].pc = "launch"]
    /\ UNCHANGED <<manager, gui, recorder>>

\* launch_recorder_process: subprocess.Popen(['nohup', CAMERA_RECORDER_EXECUTABLE,
\* '&'], ...) starts a new process and the route answers 200; if the executable
\* is missing (FileNotFoundError) the route answers 500.
LaunchRecorderProcess(h) ==
    /\ request[h].pc = "launch"
    /\ \E found \in BOOLEAN :
          IF found
          THEN /\ Recorders \ AliveRecorders # {}
               /\ recorder' = [recorder EXCEPT
                                  ![Min(Recorders \ AliveRecorders)] = "running"]
               /\ request' = [request EXCEPT ![h].pc = "idle", ![h].response = 200]
          ELSE /\ request' = [request EXCEPT ![h].pc = "idle", ![h].response = 500]
               /\ UNCHANGED recorder
    /\ UNCHANGED <<manager, gui>>

\* A recorder that got SIGINT has finished writing its file and exits.
RecorderExits(p) ==
    /\ recorder[p] = "signalled"
    /\ recorder' = [recorder EXCEPT ![p] = "none"]
    /\ UNCHANGED <<manager, gui, request>>

\* __main__: launch_recorder_process() and then app.run(): one recorder runs
\* when the first request arrives.
InitWebServer ==
    /\ InitSession
    /\ lock = None
    /\ getter = "idle"
    /\ stats = NoStats
    /\ segment_files = {}
    /\ stderr_lines = <<>>
    /\ returncode = 0
    /\ verdict = <<>>
    /\ validator = IdleValidator
    /\ detector = IdleDetector
    /\ settled = FALSE
    /\ api_response = NoResponse
    /\ gui = IdleGui
    /\ recorder = [p \in Recorders |-> IF p = 1 THEN "running" ELSE "none"]
    /\ request = [h \in Handlers |-> IdleRequest]

NextWebServer ==
    \/ \E h \in Handlers, route \in {"save_and_restart", "relaunch_recorder"} :
          RequestArrives(h, route)
    \/ \E h \in Handlers : StopRecorderProcess(h)
    \/ \E h \in Handlers : StopSleepOver(h)
    \/ \E h \in Handlers : LaunchRecorderProcess(h)
    \/ \E p \in Recorders : RecorderExits(p)

SpecWebServer == InitWebServer /\ [][NextWebServer]_vars


\* --------------------------------------------------------- DeviceDetector
\* The device nodes and the sound cards, by number.
DeviceNumbers == 0..(MaxDevices - 1)
VideoDeviceNames == <<"/dev/video0", "/dev/video1", "/dev/video2", "/dev/video3">>
AudioDeviceNames == <<"plughw:0,0", "plughw:1,0", "plughw:2,0", "plughw:3,0">>

\* sorted(glob.glob('/dev/video*')) for the set S of device numbers present
RECURSIVE SortedDevices(_)
SortedDevices(S) ==
    IF S = {} THEN <<>>
    ELSE <<VideoDeviceNames[Min(S) + 1]>> \o SortedDevices(S \ {Min(S)})

\* re.findall(r"card (\d+):.*USB", output): one f"plughw:{card_num},0" for every
\* matching line of `arecord -l`, in the order of the lines (a card with two
\* devices has two lines)
AudioCandidates ==
    UNION {[1..n -> {AudioDeviceNames[i + 1] : i \in DeviceNumbers}] : n \in 0..MaxDevices}

\* A detector call with its candidates enumerated and nothing probed yet; for
\* find_active_audio_device the enumeration (`arecord -l`) may itself fail.
DetectorCalls ==
    {[pc |-> "probe", kind |-> k, enumerated |-> e, candidates |-> cs,
      probe_ok |-> oks, probed |-> <<>>, result |-> <<>>] :
        k \in {"video", "audio"}, e \in BOOLEAN, cs \in AudioCandidates,
        oks \in UNION {[1..n -> BOOLEAN] : n \in 0..MaxDevices}}

InitDetect ==
    /\ InitSession
    /\ lock = None
    /\ getter = "idle"
    /\ stats = NoStats
    /\ segment_files = {}
    /\ stderr_lines = <<>>
    /\ returncode = 0
    /\ verdict = <<>>
    /\ validator = IdleValidator
    /\ settled = FALSE
    /\ api_response = NoResponse
    /\ InitAutoRecorder
    /\ detector \in DetectorCalls
    /\ Len(detector.probe_ok) = Len(detector.candidates)
    /\ detector.kind = "video" =>
          /\ detector.enumerated
          /\ \E S \in SUBSET DeviceNumbers : detector.candidates = SortedDevices(S)
    /\ detector.kind = "audio" =>
          (~detector.enumerated => detector.candidates = <<>>)

\* A probe loop that does not return at the first success: it probes every
\* candidate and returns the last one that passed.
DetectorProbe_KeepsProbing ==
    /\ detector.pc = "probe"
    /\ detector.enumerated
    /\ Len(detector.probed) < Len(detector.candidates)
    /\ LET i == Len(detector.probed) + 1 IN
         detector' = [detector EXCEPT
             !.probed = Append(@, detector.candidates[i]),
             !.result = IF detector.probe_ok[i] THEN <<detector.candidates[i]>> ELSE @,
             !.pc = IF i = Len(detector.candidates) /\ (detector.probe_ok[i] \/ detector.result # <<>>)
                    THEN "returned" ELSE "probe"]
    /\ UNCHANGED <<session, worker, child, callers, savers, disk, now, last_start>>
    /\ UNCHANGED <<observers, segment_files, validation, settled, api_response,
                   autorecorder>>

\* for device in potential_devices: subprocess.run(command, check=True) on the
\* next candidate; `return device` if it succeeds, `continue` if it raises
\* CalledProcessError or FileNotFoundError
DetectorProbe ==
    /\ detector.pc = "probe"
    /\ detector.enumerated
    /\ Len(detector.probed) < Len(detector.candidates)
    /\ LET i == Len(detector.probed) + 1 IN
         detector' = [detector EXCEPT
             !.probed = Append(@, detector.candidates[i]),
             !.result = IF detector.probe_ok[i] THEN <<detector.candidates[i]>> ELSE @,
             !.pc = IF detector.probe_ok[i] THEN "returned" ELSE "probe"]
    /\ UNCHANGED <<session, worker, child, callers, savers, disk, now, last_start>>
    /\ UNCHANGED <<observers, segment_files, validation, settled, api_response,
                   autorecorder>>

\* after the loop, or in the except branch of `arecord -l`: return None
DetectorNone ==
    /\ detector.pc = "probe"
    /\ ~detector.enumerated \/ Len(detector.probed) = Len(detector.candidates)
    /\ detector' = [detector EXCEPT !.result = <<None>>, !.pc = "returned"]
    /\ UNCHANGED <<session, worker, child, callers, savers, disk, now, last_start>>
    /\ UNCHANGED <<observers, segment_files, validation, settled, api_response,
                   autorecorder>>

NextDetect == DetectorProbe \/ DetectorNone

SpecDetect == InitDetect /\ [][NextDetect]_vars

\* One call of _validate_ffmpeg_config for every output and return code of its
\* validation process: the process and the monitor_stderr thread are started.
InitValidate ==
    /\ InitSession
    /\ lock = None
    /\ getter = "idle"
    /\ stats = NoStats
    /\ segment_files = {}
    /\ stderr_lines \in StderrOutputs
    /\ returncode \in ReturnCodes
    /\ verdict = <<>>
    /\ validator = [IdleValidator EXCEPT !.pc = "wait"]
    /\ detector = IdleDetector
    /\ settled = FALSE
    /\ api_response = NoResponse
    /\ InitAutoRecorder

\* for line in iter(process.stderr.readline, ''): a fatal signature in the line
\* sets has_critical_error and ends the thread (break)
MonitorReadLine ==
    /\ ~validator.monitor_done
    /\ validator.read < Len(stderr_lines)
    /\ validator' =
          IF stderr_lines[validator.read + 1] \in FatalSignatures
          THEN [validator EXCEPT !.read = @ + 1, !.has_critical_error = TRUE,
                                 !.monitor_done = TRUE]
          ELSE [validator EXCEPT !.read = @ + 1]
    /\ UNCHANGED <<session, worker, child, callers, savers, disk, now, last_start>>
    /\ UNCHANGED <<observers, segment_files, stderr_lines, returncode, verdict, aside>>

\* readline returns '' once the process has closed its stderr: the thread ends
MonitorEndOfFile ==
    /\ ~validator.monitor_done
    /\ validator.read = Len(stderr_lines)
    /\ validator.exited
    /\ validator' = [validator EXCEPT !.monitor_done = TRUE]
    /\ UNCHANGED <<session, worker, child, callers, savers, disk, now, last_start>>
    /\ UNCHANGED <<observers, segment_files, stderr_lines, returncode, verdict, aside>>

\* the validation process (ffmpeg -t VALIDATION_DURATION_SECONDS) exits
ValidationProcessExit ==
    /\ validator.pc = "wait"
    /\ ~validator.exited
    /\ validator' = [validator EXCEPT !.exited = TRUE]
    /\ UNCHANGED <<session, worker, child, callers, savers, disk, now, last_start>>
    /\ UNCHANGED <<observers, segment_files, stderr_lines, returncode, verdict, aside>>

\* process.wait(); stderr_thread.join(); return False / return True
ValidateReturn ==
    /\ validator.pc = "wait"
    /\ validator.exited
    /\ validator.monitor_done
    /\ verdict' = <<ValidationPassed(validator.has_critical_error, returncode)>>
    /\ validator' = [validator EXCEPT !.pc = "returned"]
    /\ UNCHANGED <<session, worker, child, callers, savers, disk, now, last_start>>
    /\ UNCHANGED <<observers, segment_files, stderr_lines, returncode, aside>>

NextValidate ==
    \/ MonitorReadLine
    \/ MonitorEndOfFile
    \/ ValidationProcessExit
    \/ ValidateReturn

SpecValidate == InitValidate /\ [][NextValidate]_vars

\* ------------------------------------------------------------- the claims
\* What the scheduler and the operating system are bound to do next: a step of a
\* thread that is not blocked, or the exit of a child that was sent SIGTERM.
PendingStep ==
    \/ \E w \in Workers : WorkerStep(w)
    \/ \E c \in Children : ChildTerminated(c)
    \/ \E r \in Restarters : ChangeResolutionStop(r) \/ RestartStart(r)
    \/ \E s \in Savers : SaveProbe(s) \/ SaveProbeFailed(s) \/ SaveRemux(s) \/ SaveRestore(s)

\* The positions of a worker that is blocked on its child, or on its way out
\* after the child's exit.
WindingDown == {"waiting", "check_running", "loop_check", "exit"}

\* C1: at most one ffmpeg capture child is alive.  Stated of the children that
\* are alive and were not yet sent SIGTERM, which the claim's count includes.
C1_AtMostOneLiveChild ==
    Cardinality({c \in Children : child[c].state = "running"}) <= 1

\* C2: a start_capture call made while is_running is true creates no thread and
\* no child and changes no session field.
C2_StartWhileRunningIsNoOp ==
    [][(is_running /\ (StartCapture \/ \E r \in Restarters : RestartStart(r)))
          => UNCHANGED <<session, worker, child>>]_vars

\* C2: start_capture was called while the session ran and a worker was alive.
C2_Witness ==
    /\ is_running
    /\ last_start = "Capture is already running."
    /\ \E w \in Workers : Looping(w)

\* C3: at most one worker thread is inside the loop body of _capture_loop.
C3_AtMostOneLoopingWorker ==
    Cardinality({w \in Workers : InLoopBody(w)}) <= 1

\* C4: after a stop_capture with no start_capture after it, once every thread
\* has run as far as it can and every signalled child has exited, the workers
\* have ended, status is "Stopped" and no capture child is alive.
C4_StopLeadsToStopped ==
    (~is_running /\ ~ENABLED PendingStep)
        => /\ \A w \in Workers : worker[w].pc = "idle"
           /\ status = StStopped
           /\ \A c \in Children : ~Live(c)

\* C5: the step of stop_capture that clears the running flag leaves the handle
\* and start_time cleared and no live child that was not sent SIGTERM.
C5_StopSignalsEveryLiveChild ==
    [][(is_running /\ ~is_running')
          => /\ ffmpeg_process' = NoProcess
             /\ start_time' = NoTime
             /\ \A c \in Children : child'[c].state # "running"]_vars

C7_SavesProduceDistinctFiles ==
    /\ \A i, j \in 1..Len(save_log) : i # j => save_log[i] # save_log[j]
    /\ Cardinality(saved_files) = Len(save_log)

\* C8: a change_resolution made while capturing leaves the requested resolution
\* set, and the worker that was capturing only winds down: the exit of its
\* child is not handled as a crash, it starts no further cycle beside the new
\* worker's, and it does not end on an error.
C8_OneStopOneRestart ==
    /\ requested_resolution # None => resolution = requested_resolution
    /\ \A w \in Workers :
          worker[w].stopped_in_wait = "change_resolution" => worker[w].pc \in WindingDown

\* C9: no capture child is launched, with the running flag set again, from a
\* device detection (and resolution) that began before the last stop_capture.
C9_NoLaunchFromStaleDetection ==
    \A c \in Children : ~child[c].stale_launch

\* C10: a worker whose child was signalled by a stop_capture (also the one of
\* restart_capture) while it was blocked on it only winds down: the exit is not
\* handled as a crash and the worker leaves the loop.
C10_StoppedExitIsExpected ==
    \A w \in Workers :
        worker[w].stopped_in_wait # None => worker[w].pc \in WindingDown

\* A worker whose detection of this iteration found no video or no audio device.
DetectionFailed(w) ==
    /\ worker[w].pc \in {"not_found", "sleep"}
    /\ worker[w].video_device = None \/ worker[w].audio_device = None

PassedCandidates(w) ==
    {i \in 1..Len(worker[w].verdicts) : worker[w].verdicts[i]}
FailedCandidates(w) ==
    {encoder_fallback_order[i] : i \in {j \in 1..Len(worker[w].verdicts) : ~worker[w].verdicts[j]}}

\* C12: when a worker moves the session to a "Recording with ..." status, the
\* session's active_encoder is the first candidate, in the declared order, that
\* passed the validation of that iteration, and no candidate that failed it.
C12_FirstPassingEncoderAdopted ==
    [][\A w \in Workers :
          (worker[w].pc = "record_begin" /\ worker'[w].pc = "communicate") =>
             /\ PassedCandidates(w) # {}
             /\ active_encoder' = encoder_fallback_order[Min(PassedCandidates(w))]
             /\ active_encoder' \notin FailedCandidates(w)
             /\ status' = StRecording(active_encoder')]_vars

\* C13: a worker is past its loop (on the way to "Stopped", or ended by an
\* error) only if a stop_capture call cleared the running flag after the worker
\* last found it set; a failed detection, a failed validation and an unexpected
\* exit of the child all lead back to the loop test.
C13_OnlyStopEndsTheWorker ==
    /\ [](\A w \in Workers : worker[w].pc \in {"exit", "dead"} => worker[w].flag_cleared)
    /\ [][\A w \in Workers :
            (worker[w].pc \in {"not_found", "all_failed", "crash_status"}
               /\ worker'[w].pc # worker[w].pc) => worker'[w].pc = "sleep"]_vars

\* C13 witness: a worker whose last iteration ended in a failure has left the
\* loop, a stop_capture having cleared the flag.
C13_Witness ==
    /\ \E w \in Workers : worker[w].pc = "exit" /\ worker[w].flag_cleared
    /\ status \in {StNotFound, StAllFailed, StCrashed}

\* The positions from which a worker's next step is a `with self.lock:` block
\* of _capture_loop or _validate_ffmpeg_config that writes status.
LockedWorkerSteps ==
    {"detect_begin", "not_found", "validate_begin", "all_failed", "capture_begin",
     "record_begin", "crash_status", "exit"}
\* The positions from which a saver's next step is a `with self.lock:` block.
LockedSaverSteps == {"idle", "probe_failed", "restore"}

\* Every message the code assigns to status.
StatusMessages ==
    {StStopped, StStarting, StDetecting, StNotFound, StAllFailed, StCrashed, StSaving}
    \cup {StValidating(e) : e \in {"libx264"}}
    \cup {StStartingCapture(e) : e \in {"libx264"}}
    \cup {StRecording(e) : e \in {"libx264", "N/A"}}

\* C14: status changes only in a step that is a `with self.lock:` block, taken
\* while no other thread holds the lock, and the status a get_stats call reads
\* is one whole message.
C14_StatusWrittenUnderLock ==
    /\ [](getter # "idle" => stats.status \in StatusMessages)
    /\ [][status' # status =>
            /\ lock = None
            /\ \/ \E w \in Workers : /\ worker[w].pc \in LockedWorkerSteps
                                      /\ worker'[w].pc # worker[w].pc
               \/ \E s \in Savers : /\ saver[s].pc \in LockedSaverSteps
                                     /\ saver'[s] # saver[s]
               \/ ~is_running /\ is_running']_vars

\* C14 witness: a get_stats call has read a status the worker wrote, and holds
\* the lock while the worker stands before its next status write.
C14_Witness ==
    /\ getter = "free_m"
    /\ stats.status = StDetecting
    /\ \E w \in Workers : worker[w].pc = "not_found"

\* The positions at which a thread runs, or waits on, an external process:
\* device probing, encoder validation and the capture child for a worker, the
\* probe and the remux for a saver, the free-memory command for get_stats.
WorkerInSubprocess(w) == worker[w].pc \in {"detect", "validating", "waiting"}
SaverInSubprocess(s) == saver[s].pc \in {"probe", "remux"}
GetterInSubprocess == getter = "free_m"

\* C15: no thread holds the session lock while it runs or waits on an external
\* process; for get_stats: the lock it took is released before the free-memory
\* command runs.
C15_NoSubprocessUnderLock ==
    lock = "get_stats" => ~GetterInSubprocess

\* C16: while save_to_disk runs its probe or its remux the saver does not hold
\* the session lock: unless a get_stats call holds it, stop_capture, a new
\* get_stats call and every worker standing before a status write can take
\* the lock and complete their step.
C16_SaveReleasesLock ==
    \A s \in Savers : SaverInSubprocess(s) =>
        /\ lock \in {None, "get_stats"}
        /\ lock = None =>
              /\ ENABLED StopCapture
              /\ getter = "idle" => ENABLED GetStatsCall
              /\ \A w \in Workers :
                    worker[w].pc \in LockedWorkerSteps => ENABLED WorkerStep(w)

\* C16 witness: during the remux a stop_capture has completed and a get_stats
\* call has taken the lock.
C16_Witness ==
    /\ \E s \in Savers : saver[s].pc = "remux"
    /\ ~is_running
    /\ lock = "get_stats"

\* The fields of the session the capture loop runs on.
capture_state ==
    <<is_running, ffmpeg_process, start_time, resolution, last_video_device,
      last_audio_device, active_encoder>>

\* C17: a step of save_to_disk leaves the running flag, the process handle,
\* start_time, resolution, the device identifiers and active_encoder alone, and
\* a call that ran its subprocesses returns success exactly if the probe and
\* the remux both succeeded, the buffer-invalid error after a failed probe,
\* with no remux run, and the save-failed error after a failed remux.
C17_SaveReturnsItsOutcome ==
    [][\A s \in Savers :
          /\ (saver'[s] # saver[s] \/ SaveCall(s)) => UNCHANGED capture_state
          /\ (saver[s].pc \in {"probe_failed", "restore"} /\ saver'[s].pc = "idle") =>
                /\ save_returned'.status = "success" <=>
                       saver[s].ran = << <<"ffprobe", TRUE>>, <<"ffmpeg", TRUE>> >>
                /\ saver[s].ran = << <<"ffprobe", FALSE>> >> <=>
                       save_returned' = BufferInvalidError
                /\ saver[s].ran = << <<"ffprobe", TRUE>>, <<"ffmpeg", FALSE>> >> <=>
                       save_returned' = SaveFailedError]_vars

\* C17 witness: a save whose remux failed has returned the save-failed error,
\* and a save whose probe and remux succeeded has left its file.
C17_Witness ==
    /\ save_returned = SaveFailedError
    /\ saved_files # {}
    /\ is_running

\* C18: status is "Stopped" only while no worker thread is active and no capture
\* child is alive, and once "Stopped" it changes only in a start_capture call
\* that sets the running flag.
C18_StoppedIsTerminal ==
    /\ [](status = StStopped =>
            /\ \A w \in Workers : ~Alive(w)
            /\ \A c \in Children : ~Live(c))
    /\ [][(status = StStopped /\ status' # StStopped) =>
            (~is_running /\ is_running' /\ status' = StStarting)]_vars

\* C19: once the capture child of the session has written more segments than
\* one buffer window holds, the number of segment files get_stats counts does
\* not exceed max_segments.
C19_BufferedSegmentsCapped ==
    (/\ ffmpeg_process # NoProcess
     /\ child[ffmpeg_process].state = "running"
     /\ child[ffmpeg_process].next_segment > HLS_LIST_SIZE)
        => BufferedSegments <= HLS_LIST_SIZE

\* No line the validation process wrote contains a fatal signature.
NoFatalSignature ==
    \A i \in 1..Len(stderr_lines) : stderr_lines[i] \notin FatalSignatures

\* C20: _validate_ffmpeg_config returns True exactly if its validation process
\* exited with code 0 and wrote no line with a fatal signature, and False in
\* every other case.
C20_ValidationVerdict ==
    verdict # <<>> =>
        /\ verdict[1] \in BOOLEAN
        /\ verdict[1] <=> (returncode = 0 /\ NoFatalSignature)

\* C20 witness: a validation process that wrote lines without a fatal signature
\* and exited with a code other than 0 was given the verdict False.
C20_Witness ==
    /\ verdict = <<FALSE>>
    /\ returncode # 0
    /\ stderr_lines # <<>>
    /\ NoFatalSignature

\* C21: once a fatal signature has been detected on the stderr of the validation
\* process, _validate_ffmpeg_config can return at once: its return does not
\* wait for the process to reach the end of its run and exit.
C21_FailsWithoutWaiting ==
    (validator.pc = "wait" /\ validator.has_critical_error) => ENABLED ValidateReturn

\* The positions of the candidates whose probe succeeds.
WorkingCandidates ==
    {i \in 1..Len(detector.candidates) : detector.probe_ok[i]}

C23_ResolutionWhitelisted ==
    /\ [](resolution \in {"640x480", "320x240", "160x120"})
    /\ [][api_response' # api_response =>
            /\ api_response'.status = "error"
            /\ UNCHANGED <<session, worker, child, callers>>]_vars

\* C23 witness: a request was rejected with code 400 and another one changed
\* the resolution to a whitelisted value.
C23_Witness ==
    /\ api_response.code = 400
    /\ resolution = "160x120"

\* C28: the status, the resolution and the encoder in the dictionary of a
\* get_stats call are the values the session holds together at one instant:
\* from the moment the call reads them until it returns, none of the three
\* fields is written.
C28_StatsAreOneSnapshot ==
    lock = "get_stats" =>
        /\ stats.status = status
        /\ stats.resolution = resolution
        /\ stats.encoder = active_encoder

\* C28 witness: a get_stats call is about to return a dictionary with the
\* resolution a change_resolution call has just written, while that call
\* stands before its restart and a worker stands before a status write.
C28_Witness ==
    /\ lock = "get_stats"
    /\ getter = "return"
    /\ stats.resolution = "160x120"
    /\ \E r \in Restarters : restarter[r] = "restart"
    /\ \E w \in Workers : worker[w].pc = "record_begin"

\* C24: whenever a capture child is launched, the worker that launches it has,
\* in the loop iteration it is in, detected the devices at the resolution the
\* child is launched with, and passed the validation of exactly the encoder,
\* resolution and devices the child is launched with.
C24_LaunchesWhatItValidated ==
    [][\A c \in Children :
          (child[c].state # "running" /\ child'[c].state = "running") =>
              \E w \in Workers :
                  /\ worker[w].pc = "popen"
                  /\ worker'[w].pc = "assign_process"
                  /\ worker'[w].popen_result = c
                  /\ worker[w].detected =
                        <<child'[c].resolution, child'[c].video_device,
                          child'[c].audio_device>>
                  /\ worker[w].validated =
                        <<child'[c].encoder, child'[c].resolution,
                          child'[c].video_device, child'[c].audio_device>>]_vars

\* C24 witness: after a change of resolution a worker has launched a child with
\* the new resolution, which it detected and validated in this iteration.
C24_Witness ==
    \E w \in Workers :
        /\ worker[w].pc = "assign_process"
        /\ worker[w].validated = <<"libx264", "160x120", "/dev/video0", "plughw:1,0">>
        /\ child[worker[w].popen_result].state = "running"
        /\ child[worker[w].popen_result].resolution = "160x120"

\* The session reports "Recording with <encoder>" and the capture child whose
\* handle it holds is running.
RecordingLive ==
    /\ StartsWithRecording(status)
    /\ ffmpeg_process # NoProcess
    /\ child[ffmpeg_process].state = "running"

\* C25: once probing succeeds, validation passes and the child no longer exits
\* by itself, the fairly scheduled worker eventually reaches "Recording with
\* <encoder>" with a running child, unless the running flag is cleared.
C25_EventuallyRecording ==
    settled ~> (RecordingLive \/ ~is_running)

\* C25 witness: the environment has settled and the session, its flag still
\* set, records with a running child the worker waits on.
C25_Witness ==
    /\ settled
    /\ is_running
    /\ RecordingLive
    /\ \E w \in Workers : worker[w].pc = "communicate" /\ ~worker[w].flag_cleared

\* C26: the uptime a get_stats call reports is the time since start_time while
\* the session records, and 0 whenever it reports a status of a session that
\* does not capture: stopped, detecting, devices not found, validating, or
\* crashed and retrying.
C26_UptimeZeroUnlessCapturing ==
    [][GetStatsCall =>
          /\ (is_running /\ StartsWithRecording(status) /\ start_time # NoTime)
                => stats'.uptime = now - start_time
          /\ (status \in {StStopped, StDetecting, StNotFound, StAllFailed, StCrashed}
                \/ status \in {StValidating(encoder_fallback_order[i]) :
                                   i \in 1..Len(encoder_fallback_order)})
                => stats'.uptime = 0]_vars

\* C27: in a worker iteration the buffer directory is removed and recreated,
\* empty, before the capture child is launched, and start_time is written only
\* after the launch.
C27_ResetLaunchThenStartTime ==
    [][/\ \A w \in Workers :
            (worker[w].pc = "reset_buffer" /\ worker'[w].pc = "popen")
                => segment_files' = {}
       /\ \A c \in Children :
            (child[c].state # "running" /\ child'[c].state = "running") =>
                \E w \in Workers :
                    /\ worker'[w].popen_result = c
                    /\ worker[w].stages = <<"reset_buffer">>
       /\ (start_time' # start_time /\ start_time' # NoTime) =>
                \E w \in Workers :
                    /\ worker[w].stages = <<"reset_buffer", "popen">>
                    /\ worker'[w].stages = <<"reset_buffer", "popen", "start_time">>]_vars

\* C27 witness: a worker has gone through the three steps in this order and its
\* child writes into the directory, which an earlier step had emptied.
C27_Witness ==
    \E w \in Workers :
        /\ worker[w].stages = <<"reset_buffer", "popen", "start_time">>
        /\ start_time # NoTime
        /\ segment_files # {}
        /\ ffmpeg_process # NoProcess
        /\ child[ffmpeg_process].next_segment > 0

\* The capture children that are running.
LiveChildren == {c \in Children : child[c].state = "running"}

\* C29: whenever the status is "Recording with <encoder>", the running flag is
\* set, exactly one capture child is running, and active_encoder is the encoder
\* that child was launched with, not "N/A".
C29_RecordingMeansCapturing ==
    StartsWithRecording(status) =>
        /\ is_running
        /\ Cardinality(LiveChildren) = 1
        /\ active_encoder # "N/A"
        /\ \A c \in LiveChildren : child[c].encoder = active_encoder

\* C30: with no change_resolution or restart_capture call in progress, a
\* running capture child of a session that reports "Recording with <encoder>"
\* was launched with the resolution the session holds.
C30_RecordingAtSessionResolution ==
    (\A r \in Restarters : restarter[r] = "idle") =>
        \A c \in Children :
            (child[c].state = "running" /\ StartsWithRecording(status))
                => child[c].resolution = resolution

\* C31: no worker thread ends with an unhandled error on a process handle that
\* stop_capture has cleared, and a worker thread that ends has written the
\* status "Stopped" as its last step.
C31_WorkerEndsWithStopped ==
    /\ [](\A w \in Workers : worker[w].pc # "dead")
    /\ [][\A w \in Workers :
            (Alive(w) /\ ~Alive(w)') => status' = StStopped]_vars

\* C32: the capture stage removes the buffer directory only when no capture
\* child is running.
C32_NoResetUnderLiveChild ==
    [][\A w \in Workers :
          (worker[w].pc = "reset_buffer" /\ worker'[w].pc = "popen")
              => \A c \in Children : child[c].state # "running"]_vars

\* C35: at most one camera_recorder process exists at any time: a new one is
\* launched only once the previous one has exited.
C35_AtMostOneRecorder ==
    Cardinality(AliveRecorders) <= 1

\* C34: a save_to_disk call of autoRecorder that returns an error leaves the
\* status as it was when the call was made.
C34_FailedSaveKeepsStatus ==
    [][\A s \in Savers :
          /\ (saver' = saver /\ save_returned' # save_returned
                 /\ save_returned'.status = "error") => status' = status
          /\ (saver[s].pc # "idle" /\ saver'[s].pc = "idle"
                 /\ save_returned'.status = "error")
                => status' = saver[s].status_before]_vars

\* C33: a toggle_pause that was started completes: the Tk main thread gets back
\* to its event loop, with the lock released.
C33_TogglePauseCompletes ==
    (gui.handler = "toggle_pause") ~> (gui = IdleGui /\ lock # "toggle_pause")

====
